---- MODULE Spec2Model ----
(***************************************************************************)
(* django-autoslug: AutoSlugField.pre_save (autoslug/fields.py) and the    *)
(* uniqueness resolver generate_unique_slug with its helpers               *)
(* (autoslug/utils.py).                                                    *)
(*                                                                         *)
(* A Python string is a sequence of one-character strings, so that slicing *)
(* and len() are the sequence operations.  Every attribute value is a      *)
(* tagged record: None, a string, an int, a date, or a model instance.     *)
(* A lookup name "author__name" is the sequence of its "__"-separated      *)
(* segments, <<"author", "name">>.                                         *)
(***************************************************************************)
EXTENDS Integers, Sequences, FiniteSets, TLC

VARIABLES
    field,            \* the AutoSlugField's configuration (set by __init__)
    store,            \* the rows of the model's table: type(instance).objects
    instance,         \* generate_unique_slug: the instance argument
    slugs,            \* generate_unique_slug: the slugs argument
    pc,               \* generate_unique_slug: position in the function
    default_lookups,  \* generate_unique_slug: local, line 43
    index,            \* generate_unique_slug: local, line 45
    add_index,        \* generate_unique_slug: the outer loop variable, line 47
    pos,              \* generate_unique_slug: position of the inner for loop in slugs, line 48
    slug,             \* generate_unique_slug: local, line 49 / 78
    original_slug,    \* generate_unique_slug: local, line 49 / 74
    result,           \* generate_unique_slug: the value returned
    error,            \* generate_unique_slug: the exception raised, "" when none
    tried,            \* history: the slugs the rival query was issued for, in order
    sv,               \* per process: the save it is running (Model.save)
    overlapped        \* history: some save began while another was under way

gus_vars == <<instance, slugs, pc, default_lookups, index, add_index, pos, slug,
              original_slug, result, error, tried>>

save_vars == <<sv, overlapped>>

\* ------------------------------------------------------------------ bounds

\* field.max_length ranges over 1..MaxLength (the code's default is 50).
MaxLength == 3
\* The table holds at most MaxRows rows.
MaxRows == 3
\* populate_from yields at most MaxCandidates candidates.
MaxCandidates == 2
\* At most MaxInserts new records are saved.
MaxInserts == 2

\* ------------------------------------------------------------------ values

PyNone == [t |-> "none"]
\* A bound method of the instance, and the value a call of it returns.
Method(returns) == [t |-> "method", returns |-> returns]
\* django.db.models.fields.NOT_PROVIDED: the `default` of a field declared without one.
NOT_PROVIDED == [t |-> "NOT_PROVIDED"]
PyString(s) == [t |-> "str", v |-> s]
PyInt(n) == [t |-> "int", v |-> n]
Date(y, m, d) == [t |-> "date", year |-> y, month |-> m, day |-> d]
Obj(model, pk, attrs) == [t |-> "obj", model |-> model, pk |-> pk, attrs |-> attrs]

\* instance.pk of an instance that was never saved (None): no row has it.
NoPk == 0

\* Python truth value of an attribute value: `not value`.
Truthy(value) ==
    CASE value.t = "none" -> FALSE
      [] value.t = "str" -> value.v # <<>>
      [] value.t = "int" -> value.v # 0
      [] OTHER -> TRUE

\* Python s[:n]: a negative n counts from the end of s.
PySlice(s, n) ==
    IF n >= 0
    THEN SubSeq(s, 1, IF n < Len(s) THEN n ELSE Len(s))
    ELSE SubSeq(s, 1, IF Len(s) + n > 0 THEN Len(s) + n ELSE 0)

Digit(d) == <<"0", "1", "2", "3", "4", "5", "6", "7", "8", "9">>[d + 1]

\* Python str(n) and '%d' % n of a natural number: its decimal digits.
RECURSIVE PyStr(_)
PyStr(n) == IF n < 10 THEN <<Digit(n)>> ELSE PyStr(n \div 10) \o <<Digit(n % 10)>>

\* ------------------------------------------------------------------ schema

\* instance._meta of the two model classes the inputs are drawn from: each
\* field's kind and its `blank` option.  "slug" is the AutoSlugField itself.
Meta ==
    [Article |-> [a      |-> [kind |-> "char", blank |-> TRUE],
                  b      |-> [kind |-> "char", blank |-> FALSE],
                  d      |-> [kind |-> "date", blank |-> FALSE],
                  author |-> [kind |-> "fk",   blank |-> FALSE],
                  title  |-> [kind |-> "char", blank |-> TRUE],
                  slug   |-> [kind |-> "slug", blank |-> FALSE]],
     Author  |-> [name   |-> [kind |-> "char", blank |-> FALSE]]]

\* ------------------------------------------------------------------ utils.py

NoError == ""

Raise(e) == [error |-> e, lookups |-> <<>>]
Yield(ls) == [error |-> NoError, lookups |-> ls]

\* The value an ORM lookup `path` has on a row: a field, a date part, or a
\* field of a related row (a join).
RECURSIVE LookupValue(_, _)
LookupValue(obj, path) ==
    LET value == obj.attrs[Head(path)] IN
    IF Len(path) = 1 THEN value
    ELSE IF value.t = "obj" THEN LookupValue(value, Tail(path))
    ELSE IF value.t = "date" /\ Len(path) = 2 /\ path[2] \in {"year", "month", "day"}
         THEN PyInt(value[path[2]])
    ELSE PyNone

\* The first date parts up to the requested granularity.
DateParts == <<"year", "month", "day">>

PartIndex(part) == CHOOSE i \in 1..3 : DateParts[i] = part

RECURSIVE get_uniqueness_lookups(_, _, _)
get_uniqueness_lookups(f, inst, unique_with) ==
    IF unique_with = <<>> THEN Yield(<<>>)
    ELSE
    LET original_lookup_name == Head(unique_with)
        field_name == Head(original_lookup_name)
        inner_lookup == Tail(original_lookup_name)    \* <<>> is None
        fields == Meta[inst.model]
        rest == get_uniqueness_lookups(f, inst, Tail(unique_with))
        Then(r) == IF r.error # NoError THEN r
                   ELSE IF rest.error # NoError THEN rest
                   ELSE Yield(r.lookups \o rest.lookups)
    IN
    IF field_name \notin DOMAIN fields THEN Raise("ValueError: could not find attribute")
    ELSE IF inst.model = f.model /\ field_name = f.name
    THEN Raise("ValueError: references itself")
    ELSE
    LET other_field == fields[field_name]
        value == inst.attrs[field_name]
    IN
    IF ~Truthy(value)
    THEN IF other_field.blank
         THEN Yield(<<>>)    \* break: the loop ends, no later path is looked at
         ELSE Raise("ValueError: the latter is empty")
    ELSE IF other_field.kind = "date"
    THEN LET inner == IF inner_lookup = <<>> THEN <<"day">> ELSE inner_lookup IN
         IF Len(inner) > 1 THEN Raise("ValueError: one level of nesting for dates")
         ELSE IF inner[1] \notin {"year", "month", "day"}
         THEN Raise("ValueError: expected one of year, month, day")
         ELSE Then(Yield([i \in 1..PartIndex(inner[1]) |->
                            <<<<field_name, DateParts[i]>>, PyInt(value[DateParts[i]])>>]))
    ELSE IF inner_lookup # <<>>
    THEN IF value.t # "obj" THEN Raise("ValueError: could not resolve lookup")
         ELSE LET sub == get_uniqueness_lookups(f, value, <<inner_lookup>>) IN
              IF sub.error # NoError THEN sub
              ELSE Then(Yield([i \in 1..Len(sub.lookups) |->
                                 <<original_lookup_name, sub.lookups[i][2]>>]))
    ELSE Then(Yield(<<<<original_lookup_name, value>>>>))

\* crop_slug
crop_slug(f, s) == IF f.max_length < Len(s) THEN PySlice(s, f.max_length) ELSE s

\* dict(default_lookups, **{field.name: slug}): a later pair of the same key
\* replaces an earlier one.
PyDict(pairs) ==
    LET keys == {pairs[i][1] : i \in 1..Len(pairs)}
        last(key) == CHOOSE i \in 1..Len(pairs) :
                        /\ pairs[i][1] = key
                        /\ \A j \in 1..Len(pairs) : pairs[j][1] = key => j <= i
    IN [key \in keys |-> pairs[last(key)][2]]

\* type(instance).objects.filter(**lookups).exclude(pk=instance.pk)
Rivals(rows, inst, lookups) ==
    {r \in rows : /\ \A key \in DOMAIN lookups : LookupValue(r, key) = lookups[key]
                  /\ (inst.pk # NoPk => r.pk # inst.pk)}

\* lines 53-54: the rivals of the current slug
CurrentRivals ==
    Rivals(store, instance, PyDict(default_lookups \o <<<<<<field.name>>, PyString(slug)>>>>))

\* Suffixed with the index digits left out of the length budget.
SuffixedForgetsDigits(f, base, n) ==
    LET tail_length == Len(f.index_sep)
        combined_length == Len(base) + tail_length
        cut == IF f.max_length < combined_length
               THEN PySlice(base, f.max_length - tail_length)
               ELSE base
    IN [original_slug |-> cut, slug |-> cut \o f.index_sep \o PyStr(n)]

\* lines 71-78: the slug re-generated with the next index
Suffixed(f, base, n) ==
    LET tail_length == Len(f.index_sep) + Len(PyStr(n))
        combined_length == Len(base) + tail_length
        cut == IF f.max_length < combined_length
               THEN PySlice(base, f.max_length - tail_length)
               ELSE base
    IN [original_slug |-> cut, slug |-> cut \o f.index_sep \o PyStr(n)]

\* The slug the n-th suffix attempt asks about (n >= 2), and the base it leaves:
\* the loop of lines 66-78 run from the cropped candidate `base`.
RECURSIVE Trial(_, _, _)
Trial(f, base, n) ==
    IF n = 2 THEN Suffixed(f, base, 2)
    ELSE Suffixed(f, Trial(f, base, n - 1).original_slug, n)

\* ------------------------------------------------------------------ inputs

\* populate_from: None, an attribute name, a list of names, or a callable (here
\* lambda instance: instance.title).
NoPopulate == [kind |-> "none", names |-> <<>>]
PopulateAttr(name) == [kind |-> "attr", names |-> <<name>>]
PopulateList(names) == [kind |-> "list", names |-> names]
PopulateCallable == [kind |-> "callable", names |-> <<>>]

\* AutoSlugField.__init__: unique is dropped when unique_with is given.
AutoSlugField(max_length, sep, unique, unique_with, populate_from, always_update, blank, null, default) ==
    [name |-> "slug", model |-> "Article", max_length |-> max_length,
     index_sep |-> sep, unique_with |-> unique_with,
     unique |-> IF unique_with # <<>> THEN FALSE ELSE unique,
     populate_from |-> populate_from, always_update |-> always_update,
     blank |-> blank, null |-> null, default |-> default]

SLUG_INDEX_SEPARATOR == <<"-">>

\* A field declared with a length, a separator and unique_with only.
Field(max_length, index_sep, unique_with) ==
    AutoSlugField(max_length, index_sep, TRUE, unique_with, NoPopulate, FALSE,
                  FALSE, FALSE, NOT_PROVIDED)

\* The values of `sep` the inputs are drawn from.
Seps == {SLUG_INDEX_SEPARATOR, <<"-", "-">>}

\* The candidate strings the inputs are drawn from.
CandidateStrings == {<<"a", "b">>, <<"b">>}

SeqsUpTo(S, n) == UNION {[1..k -> S] : k \in 0..n}

Author(pk, name) == Obj("Author", pk, [name |-> PyString(name)])

Record(pk, s, title, get_name, a, b, d, author) ==
    Obj("Article", pk, [slug |-> s, title |-> title, get_name |-> get_name,
                        a |-> a, b |-> b, d |-> d, author |-> author])

Article(pk, s, a, b, d, author) ==
    Record(pk, s, PyString(<<>>), Method(PyString(<<>>)), a, b, d, author)

X == PyString(<<"x">>)
Y == PyString(<<"y">>)
Empty == PyString(<<>>)
March15 == Date(2024, 3, 15)
March16 == Date(2024, 3, 16)
April15 == Date(2024, 4, 15)
Ann == Author(1, <<"n">>)
Bob == Author(2, <<"m">>)

\* The tables of at most MaxRows rows among `rows` (rows of distinct primary keys).
Tables(rows) == {S \in SUBSET rows : Cardinality(S) <= MaxRows}

\* ------------------------------------------------------------------ generate_unique_slug

\* lines 43-49: resolve the scope, then enter the loops with the first candidate
Start ==
    /\ pc = "start"
    /\ LET r == get_uniqueness_lookups(field, instance, field.unique_with) IN
       IF r.error # NoError
       THEN /\ pc' = "raised"
            /\ error' = r.error
            /\ UNCHANGED <<default_lookups, index, add_index, pos, slug, original_slug, result>>
       ELSE IF slugs = <<>>
       THEN /\ pc' = "returned"    \* neither loop has a body to run: None
            /\ result' = PyNone
            /\ default_lookups' = r.lookups
            /\ index' = 1
            /\ UNCHANGED <<add_index, pos, slug, original_slug, error>>
       ELSE /\ pc' = "query"
            /\ default_lookups' = r.lookups
            /\ index' = 1
            /\ add_index' = FALSE
            /\ pos' = 1
            /\ slug' = crop_slug(field, slugs[1])
            /\ original_slug' = crop_slug(field, slugs[1])
            /\ UNCHANGED <<result, error>>
    /\ UNCHANGED <<field, store, instance, slugs, tried, save_vars>>

\* Query taking a single rival for none.
QueryAllowsOneRival ==
    /\ pc = "query"
    /\ tried' = Append(tried, slug)
    /\ IF Cardinality(CurrentRivals) <= 1
       THEN pc' = "returned" /\ result' = PyString(slug)
       ELSE pc' = "rival" /\ UNCHANGED result
    /\ UNCHANGED <<field, store, instance, slugs, default_lookups, index, add_index,
                   pos, slug, original_slug, error, save_vars>>

\* lines 53-58: the rival query, and the return when there is no rival
Query ==
    /\ pc = "query"
    /\ tried' = Append(tried, slug)
    /\ IF CurrentRivals = {}
       THEN pc' = "returned" /\ result' = PyString(slug)
       ELSE pc' = "rival" /\ UNCHANGED result
    /\ UNCHANGED <<field, store, instance, slugs, default_lookups, index, add_index,
                   pos, slug, original_slug, error, save_vars>>

\* AddIndex formatting the slug with the index before it is incremented.
AddIndexIncrementsLate ==
    /\ pc = "rival"
    /\ add_index
    /\ index' = index + 1
    /\ original_slug' = Suffixed(field, original_slug, index).original_slug
    /\ slug' = Suffixed(field, original_slug, index).slug
    /\ pc' = "query"
    /\ UNCHANGED <<field, store, instance, slugs, default_lookups, add_index, pos,
                   result, error, tried, save_vars>>

\* lines 66-78: a rival in the second pass: append the next index
AddIndex ==
    /\ pc = "rival"
    /\ add_index
    /\ index' = index + 1
    /\ original_slug' = Suffixed(field, original_slug, index + 1).original_slug
    /\ slug' = Suffixed(field, original_slug, index + 1).slug
    /\ pc' = "query"
    /\ UNCHANGED <<field, store, instance, slugs, default_lookups, add_index, pos,
                   result, error, tried, save_vars>>

\* NextCandidate giving up the other candidates at the first rival.
NextCandidateSuffixesAtOnce ==
    /\ pc = "rival"
    /\ ~add_index
    /\ pos' = 1
    /\ add_index' = TRUE
    /\ slug' = crop_slug(field, slugs[1])
    /\ original_slug' = crop_slug(field, slugs[1])
    /\ pc' = "query"
    /\ UNCHANGED <<field, store, instance, slugs, default_lookups, index, result,
                   error, tried, save_vars>>

\* lines 80-81, 48, 47: a rival in the first pass: break, and go on with the
\* next candidate, or with the first one in the second pass
NextCandidate ==
    /\ pc = "rival"
    /\ ~add_index
    /\ IF pos < Len(slugs)
       THEN /\ pos' = pos + 1
            /\ UNCHANGED add_index
       ELSE /\ pos' = 1
            /\ add_index' = TRUE
    /\ slug' = crop_slug(field, slugs[pos'])
    /\ original_slug' = crop_slug(field, slugs[pos'])
    /\ pc' = "query"
    /\ UNCHANGED <<field, store, instance, slugs, default_lookups, index, result,
                   error, tried, save_vars>>

Next == Start \/ Query \/ AddIndex \/ NextCandidate

vars == <<field, store, gus_vars, save_vars>>

Procs == {1, 2}

\* A process that runs no save.
Idle == [pc |-> "idle", instance |-> PyNone, before |-> PyNone, ret |-> PyNone,
         error |-> NoError, slugs |-> <<>>]

\* The locals before the call.
InitLocals ==
    /\ sv = [p \in Procs |-> Idle]
    /\ overlapped = FALSE
    /\ pc = "start"
    /\ default_lookups = <<>>
    /\ index = 0
    /\ add_index = FALSE
    /\ pos = 0
    /\ slug = <<>>
    /\ original_slug = <<>>
    /\ result = PyNone
    /\ error = NoError
    /\ tried = <<>>

\* The slugs a call can ask about, in the order it does: the cropped candidates,
\* then the first one's suffix attempts.  A row holding any other slug matches
\* no query of the call.
Askable(f, cands) ==
    [i \in 1..(IF cands = <<>> THEN 0 ELSE Len(cands) + MaxRows) |->
        IF i <= Len(cands) THEN crop_slug(f, cands[i])
        ELSE Trial(f, crop_slug(f, cands[1]), i - Len(cands) + 1).slug]

\* The rows the tables are drawn from: each askable slug, in the scope b = "x"
\* (primary key 2i - 1) and in the scope b = "y" (primary key 2i).
SlugRows(f, cands) ==
    {Article(2 * i - 1, PyString(Askable(f, cands)[i]), X, X, March15, Ann) :
        i \in DOMAIN Askable(f, cands)}
    \cup {Article(2 * i, PyString(Askable(f, cands)[i]), X, Y, March15, Ann) :
        i \in DOMAIN Askable(f, cands)}

\* generate_unique_slug on every configuration, candidate list and table within
\* the bounds; the scope is global or the attribute b; the record is new or is
\* the first row.
Init ==
    /\ field \in {Field(m, sep, uw) : m \in 1..MaxLength, sep \in Seps,
                                      uw \in {<<>>, << <<"b">> >>}}
    /\ instance \in {Article(pk, Empty, X, X, March15, Ann) : pk \in {NoPk, 1}}
    /\ slugs \in SeqsUpTo(CandidateStrings, MaxCandidates)
    /\ store \in Tables(SlugRows(field, slugs))
    /\ InitLocals

Spec == Init /\ [][Next]_vars

\* max_length when the field is declared without one (fields.py line 172).
DefaultMaxLength == 50

\* The values of unique_with the scope inputs are drawn from.
ScopeConfigs ==
    {<<>>,
     << <<"a">> >>, << <<"b">> >>,
     << <<"a">>, <<"b">> >>, << <<"b">>, <<"a">> >>,
     << <<"d">> >>, << <<"d", "month">> >>, << <<"d", "week">> >>,
     << <<"d", "month", "day">> >>,
     << <<"author">> >>, << <<"author", "name">> >>, << <<"b", "name">> >>,
     << <<"zz">> >>, << <<"slug">> >>,
     << <<"a">>, <<"d", "month">>, <<"author", "name">> >>,
     << <<"d", "year">>, <<"a">>, <<"b">> >>}

\* The rows the scope tables are drawn from: the candidate and its first suffix
\* attempt, each in three scopes.
ScopeRows ==
    {Article(1, PyString(<<"a">>), X, X, March15, Ann),
     Article(2, PyString(<<"a">>), X, Y, March16, Ann),
     Article(3, PyString(<<"a">>), X, X, April15, Bob),
     Article(4, PyString(<<"a", "-", "2">>), X, X, March15, Ann),
     Article(5, PyString(<<"a", "-", "2">>), X, Y, March16, Ann),
     Article(6, PyString(<<"a", "-", "2">>), X, X, April15, Bob)}

\* generate_unique_slug on every scope configuration and record within the
\* bounds, for the one candidate "a" under the default length and separator.
ScopeInit ==
    /\ field \in {Field(DefaultMaxLength, SLUG_INDEX_SEPARATOR, uw) : uw \in ScopeConfigs}
    /\ instance \in {Article(pk, Empty, a, b, d, author) :
                        pk \in {NoPk, 1}, a \in {Empty, X}, b \in {Empty, X},
                        d \in {PyNone, March15},
                        author \in {PyNone, Ann, Author(3, <<>>)}}
    /\ slugs = << <<"a">> >>
    /\ store \in Tables(ScopeRows)
    /\ InitLocals

ScopeSpec == ScopeInit /\ [][Next]_vars

\* ------------------------------------------------------------------ slugify

UpperCase == {"A", "B"}
LowerOf(c) == IF c = "A" THEN "a" ELSE IF c = "B" THEN "b" ELSE c
WordChars == {"a", "b", "c", "d", "e", "f", "g", "h", "i", "j", "l", "m", "n", "o",
              "r", "t", "u",
              "0", "1", "2", "3", "4", "5", "6", "7", "8", "9", "_"} \cup UpperCase
IsSpace(c) == c = " "

RECURSIVE StripLeft(_)
StripLeft(s) == IF s # <<>> /\ IsSpace(Head(s)) THEN StripLeft(Tail(s)) ELSE s

RECURSIVE StripRight(_)
StripRight(s) ==
    IF s # <<>> /\ IsSpace(s[Len(s)]) THEN StripRight(SubSeq(s, 1, Len(s) - 1)) ELSE s

\* re.sub('[-\s]+', '-', s)
RECURSIVE CollapseDashes(_)
CollapseDashes(s) ==
    IF s = <<>> THEN <<>>
    ELSE IF Head(s) = "-" \/ IsSpace(Head(s))
    THEN IF Len(s) > 1 /\ (s[2] = "-" \/ IsSpace(s[2]))
         THEN CollapseDashes(Tail(s))
         ELSE <<"-">> \o CollapseDashes(Tail(s))
    ELSE <<Head(s)>> \o CollapseDashes(Tail(s))

\* unicode() of the bound method get_name of a record:
\* <bound method Article.get_name of <Article: Article object>>
BoundMethodRepr ==
    <<"<", "b", "o", "u", "n", "d", " ", "m", "e", "t", "h", "o", "d", " ", "A", "r",
     "t", "i", "c", "l", "e", ".", "g", "e", "t", "_", "n", "a", "m", "e", " ", "o",
     "f", " ", "<", "A", "r", "t", "i", "c", "l", "e", ":", " ", "A", "r", "t", "i",
     "c", "l", "e", " ", "o", "b", "j", "e", "c", "t", ">", ">">>

\* unicode(value), as slugify's string filter applies it to its argument
PyUnicode(value) ==
    CASE value.t = "str" -> value.v
      [] value.t = "method" -> BoundMethodRepr
      [] OTHER -> <<>>

\* The configured slugify, django.template.defaultfilters.slugify: drop what is
\* no word character, space or hyphen, strip, lower-case, and turn each run of
\* hyphens and spaces into one hyphen.
slugify(value) ==
    LET kept == SelectSeq(PyUnicode(value),
                          LAMBDA c : c \in WordChars \/ IsSpace(c) \/ c = "-")
        stripped == StripRight(StripLeft(kept))
        lower == [i \in 1..Len(stripped) |-> LowerOf(stripped[i])]
    IN CollapseDashes(lower)

\* ------------------------------------------------------------------ get_prepopulated_value

\* utils.py line 27: callable(attr) and attr() or attr
AttrOrCall(attr) ==
    IF attr.t = "method"
    THEN IF Truthy(attr.returns) THEN attr.returns ELSE attr
    ELSE attr

get_prepopulated_value(f, inst) ==
    CASE f.populate_from.kind = "callable" ->
            \* lambda instance: instance.title returns no list: it is wrapped
            [error |-> NoError, values |-> <<inst.attrs.title>>]
      [] f.populate_from.kind = "none" ->
            \* for field in None
            [error |-> "TypeError: 'NoneType' object is not iterable", values |-> <<>>]
      [] OTHER ->
            [error |-> NoError,
             values |-> [i \in 1..Len(f.populate_from.names) |->
                            AttrOrCall(inst.attrs[f.populate_from.names[i]])]]

\* ------------------------------------------------------------------ fields.py

\* instance._meta.module_name
ModuleName == <<"a", "r", "t", "i", "c", "l", "e">>

PreSaved(err, ret, inst, cands) ==
    [error |-> err, ret |-> ret, instance |-> inst, slugs |-> cands]

\* line 271: generate_unique_slug(self, instance, slugs, manager) passes four
\* arguments to a function of three (utils.py line 33): the call raises.
CallGenerateUniqueSlug(f, inst, cands) ==
    PreSaved("TypeError: generate_unique_slug() takes exactly 3 arguments (4 given)",
             PyNone, inst, cands)

\* lines 258-284, from the candidate values on
EnsureUnique(f, inst, values) ==
    LET cands == [i \in 1..Len(values) |-> crop_slug(f, slugify(values[i]))] IN
    IF f.unique \/ f.unique_with # <<>>
    THEN CallGenerateUniqueSlug(f, inst, cands)
    ELSE \* line 273 reads `slug`, which no line has assigned
         PreSaved("UnboundLocalError: local variable 'slug' referenced before assignment",
                  PyNone, inst, cands)

\* AutoSlugField.pre_save: the error raised or the value returned, and the instance
pre_save(f, inst) ==
    LET value == inst.attrs[f.name]
        autopopulate == f.always_update \/ (f.populate_from.kind # "none" /\ ~Truthy(value))
        pre == IF autopopulate THEN get_prepopulated_value(f, inst)
               ELSE [error |-> NoError, values |-> <<value>>]
        values == SelectSeq(pre.values, Truthy)
    IN
    IF pre.error # NoError THEN PreSaved(pre.error, PyNone, inst, <<>>)
    ELSE IF values # <<>> THEN EnsureUnique(f, inst, values)
    ELSE IF Truthy(f.default) /\ f.default.t = "str" THEN EnsureUnique(f, inst, <<f.default>>)
    ELSE IF f.blank
    THEN IF f.null
         THEN PreSaved(NoError, PyNone, [inst EXCEPT !.attrs.slug = PyNone], <<>>)
         ELSE PreSaved(NoError, PyString(<<>>),
                       [inst EXCEPT !.attrs.slug = PyString(<<>>)], <<>>)
    ELSE EnsureUnique(f, inst, <<PyString(ModuleName)>>)

\* ------------------------------------------------------------------ Model.save

\* The records a save can be started for: new ones (no primary key yet).
NewRecords ==
    {Record(NoPk, Empty, title, Method(name), X, b, March15, Ann) :
        title \in {Empty, PyString(<<"A", " ", "b">>)},
        name \in {Empty, PyString(<<"B">>)},
        b \in {X, Y}}

Busy(p) == sv[p].pc # "idle"

\* The new records being saved and not yet inserted.
Pending == {p \in Procs : Busy(p) /\ sv[p].pc # "saved" /\ sv[p].instance.pk = NoPk}

\* Model.save() is called on a new record, or on a stored one as loaded
Begin(p) ==
    /\ sv[p].pc = "idle"
    /\ \E inst \in NewRecords \cup store :
          /\ inst.pk = NoPk => Cardinality(store) + Cardinality(Pending) < MaxInserts
          /\ sv' = [sv EXCEPT ![p] = [Idle EXCEPT !.pc = "pre_save", !.instance = inst,
                                                 !.before = inst.attrs.slug]]
    /\ overlapped' = (overlapped \/ \E q \in Procs \ {p} : Busy(q))
    /\ UNCHANGED <<field, store, gus_vars>>

\* the save runs the field's pre_save; an exception ends the save
PreSave(p) ==
    /\ sv[p].pc = "pre_save"
    /\ LET r == pre_save(field, sv[p].instance) IN
       sv' = [sv EXCEPT ![p] = [@ EXCEPT !.pc = IF r.error = NoError THEN "persist" ELSE "failed",
                                         !.instance = r.instance, !.ret = r.ret,
                                         !.error = r.error, !.slugs = r.slugs]]
    /\ UNCHANGED <<field, store, gus_vars, overlapped>>

\* The column's UNIQUE constraint, which unique=True declares: another row
\* holds the same non-null slug.
BreaksUnique(inst) ==
    /\ field.unique
    /\ inst.attrs.slug.t = "str"
    /\ \E r \in store : r.pk # inst.pk /\ r.attrs.slug = inst.attrs.slug

NextPk == 1 + Cardinality(store)

\* the save writes the row: an UPDATE of the record's row, or an INSERT
Persist(p) ==
    /\ sv[p].pc = "persist"
    /\ LET inst == sv[p].instance IN
       IF BreaksUnique(inst)
       THEN /\ sv' = [sv EXCEPT ![p] = [@ EXCEPT !.pc = "failed", !.error = "IntegrityError"]]
            /\ UNCHANGED store
       ELSE LET row == IF inst.pk = NoPk THEN [inst EXCEPT !.pk = NextPk] ELSE inst IN
            /\ store' = {r \in store : r.pk # row.pk} \cup {row}
            /\ sv' = [sv EXCEPT ![p] = [@ EXCEPT !.pc = "saved", !.instance = row]]
    /\ UNCHANGED <<field, gus_vars, overlapped>>

\* the call of save() is over
Finish(p) ==
    /\ sv[p].pc \in {"saved", "failed"}
    /\ sv' = [sv EXCEPT ![p] = Idle]
    /\ UNCHANGED <<field, store, gus_vars, overlapped>>

SaveNext == \E p \in Procs : Begin(p) \/ PreSave(p) \/ Persist(p) \/ Finish(p)

\* The field declarations the saves are checked under.
SaveFields ==
    {AutoSlugField(DefaultMaxLength, SLUG_INDEX_SEPARATOR, unique, uw, populate_from,
                   always_update, blank, null, default) :
        unique \in BOOLEAN, uw \in {<<>>, << <<"b">> >>},
        populate_from \in {NoPopulate, PopulateAttr("title"),
                           PopulateList(<<"title", "get_name">>), PopulateCallable},
        always_update \in BOOLEAN, blank \in BOOLEAN, null \in BOOLEAN,
        default \in {NOT_PROVIDED, PyString(<<"d">>)}}

\* A row written before, holding a slug.
StoredBefore == Record(1, PyString(<<"a">>), PyString(<<"A">>), Method(Empty), X, X, March15, Ann)

\* Saves under every field declaration, on an empty table or on one row.
SaveInit ==
    /\ field \in SaveFields
    /\ store \in {{}, {StoredBefore}}
    /\ instance = PyNone
    /\ slugs = <<>>
    /\ InitLocals

SaveSpec == SaveInit /\ [][SaveNext]_vars

\* ------------------------------------------------------------------ claims

\* A row other than the record itself that the resolved scope and the slug s match.
InScope(r) ==
    \A i \in 1..Len(default_lookups) :
        LookupValue(r, default_lookups[i][1]) = default_lookups[i][2]

HasRival(s) ==
    \E r \in store : /\ (instance.pk = NoPk \/ r.pk # instance.pk)
                     /\ InScope(r)
                     /\ r.attrs.slug = PyString(s)

ReturnedSlug == pc = "returned" /\ result.t = "str"

\* C2: whenever generate_unique_slug returns a slug, no stored row other than
\* the record itself matches all the resolved scope lookups and that slug.
C2_ReturnedSlugHasNoRival ==
    ReturnedSlug => ~HasRival(result.v)

\* C2 witness: a slug is returned for a saved record scoped by date and author,
\* whose own row and a row of another scope hold that very slug.
C2_Witness ==
    /\ ReturnedSlug
    /\ Len(default_lookups) >= 2
    /\ instance.pk # NoPk
    /\ \E r \in store : r.pk = instance.pk /\ r.attrs.slug = result
    /\ \E r \in store : r.pk # instance.pk /\ r.attrs.slug = result

SuffixFits == Len(field.index_sep) + Len(PyStr(index)) <= field.max_length

FreeCandidates == {i \in 1..Len(slugs) : ~HasRival(crop_slug(field, slugs[i]))}

\* C4: if some cropped candidate has no rival in scope, the earliest such
\* candidate is returned, unsuffixed.
C4_EarliestFreeCandidate ==
    ReturnedSlug /\ FreeCandidates # {} =>
        LET first == CHOOSE i \in FreeCandidates : \A j \in FreeCandidates : i <= j
        IN result = PyString(crop_slug(field, slugs[first]))

\* C4 witness: the first candidate has a rival and the second, a different
\* slug, is returned.
C4_Witness ==
    /\ ReturnedSlug
    /\ Len(slugs) = 2
    /\ HasRival(crop_slug(field, slugs[1]))
    /\ result = PyString(crop_slug(field, slugs[2]))
    /\ crop_slug(field, slugs[2]) # crop_slug(field, slugs[1])

IsPrefix(p, s) == Len(p) <= Len(s) /\ p = SubSeq(s, 1, Len(p))

\* base ++ sep ++ n, the base a prefix of the first cropped candidate: the
\* whole of it when that fits max_length, else what fits when the suffix does.
IsSuffixedFirst(s, n) ==
    LET first == crop_slug(field, slugs[1])
        tail == field.index_sep \o PyStr(n)
    IN \E k \in 0..Len(first) :
          /\ s = SubSeq(first, 1, k) \o tail
          /\ Len(first) + Len(tail) <= field.max_length => k = Len(first)
          /\ Len(tail) <= field.max_length /\ field.max_length < Len(first) + Len(tail)
                => k = field.max_length - Len(tail)

EmptyOptional(path) ==
    /\ Head(path) \in DOMAIN Meta[instance.model]
    /\ Meta[instance.model][Head(path)].blank
    /\ ~Truthy(instance.attrs[Head(path)])

Emitted(path) == \E i \in 1..Len(default_lookups) : default_lookups[i][1][1] = Head(path)

\* C6 as claimed: once the scope is resolved without error, an optional empty
\* attribute has no lookup and every other path of unique_with has one.
C6_OnlyTheEmptyOptionalPathIsDropped ==
    pc \in {"query", "rival", "returned"} =>
        \A i \in 1..Len(field.unique_with) :
            Emitted(field.unique_with[i]) <=> ~EmptyOptional(field.unique_with[i])

\* A path of unique_with names an attribute that is empty and not optional.
EmptyRequired(path) ==
    /\ Head(path) \in DOMAIN Meta[instance.model]
    /\ ~Meta[instance.model][Head(path)].blank
    /\ ~Truthy(instance.attrs[Head(path)])

\* C9 as claimed: with an empty, non-optional attribute among unique_with the
\* call ends with an error, and no rival query is ever issued.
C9_EmptyRequiredRaisesBeforeAnyQuery ==
    (\E i \in 1..Len(field.unique_with) : EmptyRequired(field.unique_with[i])) =>
        /\ pc \in {"start", "raised"}
        /\ tried = <<>>

\* Two rows agree on every attribute unique_with names.
SameScope(r1, r2) ==
    \A i \in 1..Len(field.unique_with) :
        r1.attrs[Head(field.unique_with[i])] = r2.attrs[Head(field.unique_with[i])]

\* C1 as claimed: after saves run one at a time, no two stored records of the
\* same scope (of the whole table under unique) hold the same slug.
C1_NoSharedSlugInScope ==
    ~overlapped /\ (field.unique \/ field.unique_with # <<>>) =>
        \A r1, r2 \in store :
            /\ r1.pk # r2.pk
            /\ SameScope(r1, r2)
            /\ r1.attrs.slug.t = "str"
            => r1.attrs.slug # r2.attrs.slug

\* The save of process p is past pre_save and has not written its row.
PastPreSave(p) == sv[p].pc \in {"persist", "failed"} /\ sv[p].error # "IntegrityError"

\* C7 as claimed: two concurrent saves of different new records with the same
\* candidate and scope, neither row written yet and no stored rival, both come
\* out of pre_save holding that candidate as their slug.
C7_BothSavesTakeTheSameSlug ==
    \A p, q \in Procs :
        /\ p # q
        /\ PastPreSave(p) /\ PastPreSave(q)
        /\ field.unique \/ field.unique_with # <<>>
        /\ sv[p].instance.pk = NoPk /\ sv[q].instance.pk = NoPk
        /\ SameScope(sv[p].instance, sv[q].instance)
        /\ sv[p].slugs # <<>> /\ sv[p].slugs = sv[q].slugs
        /\ \A r \in store : r.attrs.slug # PyString(sv[p].slugs[1])
        => /\ sv[p].error = NoError /\ sv[q].error = NoError
           /\ sv[p].instance.attrs.slug = PyString(sv[p].slugs[1])
           /\ sv[q].instance.attrs.slug = PyString(sv[p].slugs[1])

\* C8 as claimed: the save of a stored record whose slug field holds its slug,
\* always_update being false, returns that slug and leaves it in the field.
C8_ResaveKeepsTheSlug ==
    \A p \in Procs :
        /\ PastPreSave(p)
        /\ sv[p].instance.pk # NoPk
        /\ ~field.always_update
        /\ field.unique \/ field.unique_with # <<>>
        /\ Truthy(sv[p].before)
        => /\ sv[p].error = NoError
           /\ sv[p].ret = sv[p].before
           /\ sv[p].instance.attrs.slug = sv[p].before

CalledValue(attr) == IF attr.t = "method" THEN attr.returns ELSE attr

\* The candidates C11 claims for a record populated from attribute names: the
\* claimed contributions without the empty ones, and the fallback chain (a
\* string default, blank, the model name) when none remains.
ClaimedCandidates(f, inst) ==
    LET contributed == [i \in 1..Len(f.populate_from.names) |->
                           CalledValue(inst.attrs[f.populate_from.names[i]])]
        values == SelectSeq(contributed, Truthy)
        chosen == IF values # <<>> THEN values
                  ELSE IF Truthy(f.default) /\ f.default.t = "str" THEN <<f.default>>
                  ELSE IF f.blank THEN <<>>
                  ELSE <<PyString(ModuleName)>>
    IN [i \in 1..Len(chosen) |-> crop_slug(f, slugify(chosen[i]))]

\* C11 as claimed: when pre_save populates the slug from an attribute name or a
\* list of names, a method among them contributes the value its call returns,
\* an empty one included: the candidates are those of the returned values, and
\* the fallback chain applies when none of them is non-empty.
C11_MethodContributesItsReturnValue ==
    \A p \in Procs :
        /\ sv[p].pc \in {"persist", "failed"} /\ sv[p].error # "IntegrityError"
        /\ field.populate_from.kind \in {"attr", "list"}
        /\ field.always_update \/ ~Truthy(sv[p].before)
        => sv[p].slugs = ClaimedCandidates(field, sv[p].instance)
====
